---- MODULE Spec2Model ----
(***************************************************************************)
(* A model of onboard_buddy.py: the row parser                             *)
(* (parse_upcoming_employees), the credential cache (get_credentials),     *)
(* the two optional notifiers, the calendar notifier and the orchestrator  *)
(* (main).                                                                 *)
(*                                                                         *)
(* Text is modelled as a sequence of one-character strings, so that        *)
(* str.strip, str.lower and datetime.strptime are computed on characters.  *)
(* Column indexes are 0-based as in the source; cell i of a row is         *)
(* row[i + 1].                                                             *)
(***************************************************************************)
EXTENDS Integers, Sequences, FiniteSets, TLC

VARIABLES
    pc,          \* position of main: "start", "sheets", "fetch", "parse", "calendar",
                 \* "email", "slack", "event", "done", "raised"; "idle" in the parser runs
    env,         \* the module-level configuration read from the environment (lines 22-30)
    token,       \* the token.json cache file
    values,      \* the grid: resp.get("values", []) in main, the argument of the parser
    window_days, \* the window_days argument of the parser
    today,       \* datetime.now(timezone.utc).date(), read by the parser
    parsed,      \* what parse_upcoming_employees did: [done, raised, hires, cols]
    k,           \* the 1-based position in hires of the hire the loop of main is at
    ok_email,    \* main's ok_email of the current hire
    ok_slack,    \* main's ok_slack of the current hire
    log          \* every external effect and notifier invocation, in order

vars == <<pc, env, token, values, window_days, today, parsed, k, ok_email, ok_slack, log>>

(***************************************************************************)
(* Characters and text                                                     *)
(***************************************************************************)
Upper == <<"A","B","C","D","E","F","G","H","I","J","K","L","M",
           "N","O","P","Q","R","S","T","U","V","W","X","Y","Z">>
LowerOf == <<"a","b","c","d","e","f","g","h","i","j","k","l","m",
             "n","o","p","q","r","s","t","u","v","w","x","y","z">>
Digits == <<"0","1","2","3","4","5","6","7","8","9">>

IsSpace(c) == c \in {" ", "\t", "\n", "\r"}
IsDigit(c) == \E i \in DOMAIN Digits : Digits[i] = c
DigitVal(c) == (CHOOSE i \in DOMAIN Digits : Digits[i] = c) - 1

\* str.lower on one character
LowerChar(c) ==
    IF \E i \in DOMAIN Upper : Upper[i] = c
    THEN LowerOf[CHOOSE i \in DOMAIN Upper : Upper[i] = c]
    ELSE c

\* str.lower
Lower(s) == [i \in DOMAIN s |-> LowerChar(s[i])]

\* str.strip: drop the leading and the trailing whitespace
RECURSIVE LStrip(_)
LStrip(s) == IF s # <<>> /\ IsSpace(Head(s)) THEN LStrip(Tail(s)) ELSE s

RECURSIVE RStrip(_)
RStrip(s) ==
    IF s # <<>> /\ IsSpace(s[Len(s)]) THEN RStrip(SubSeq(s, 1, Len(s) - 1)) ELSE s

Strip(s) == RStrip(LStrip(s))

(***************************************************************************)
(* Dates: datetime.strptime(text, "%Y-%m-%d").date() and date arithmetic   *)
(***************************************************************************)
NoDate == [ok |-> FALSE]
MkDate(y, m, d) == [ok |-> TRUE, y |-> y, m |-> m, d |-> d]

IsLeap(y) == (y % 4 = 0) /\ ((y % 100 # 0) \/ (y % 400 = 0))

DaysInMonth(y, m) ==
    IF m = 2 THEN (IF IsLeap(y) THEN 29 ELSE 28)
    ELSE IF m \in {4, 6, 9, 11} THEN 30 ELSE 31

RECURSIVE DaysBeforeMonth(_, _)
DaysBeforeMonth(y, m) ==
    IF m = 1 THEN 0 ELSE DaysBeforeMonth(y, m - 1) + DaysInMonth(y, m - 1)

\* date.toordinal: the proleptic Gregorian day number, 0001-01-01 is day 1
ToOrdinal(dt) ==
    LET y1 == dt.y - 1
    IN  365 * y1 + (y1 \div 4) - (y1 \div 100) + (y1 \div 400)
        + DaysBeforeMonth(dt.y, dt.m) + dt.d

\* the %Y directive: exactly four digits at positions 1..4
YearOf(s) ==
    1000 * DigitVal(s[1]) + 100 * DigitVal(s[2]) + 10 * DigitVal(s[3]) + DigitVal(s[4])

\* the %m directive at position p: 1[0-2] | 0[1-9] | [1-9], tried in that order;
\* the set of <<length, value>> it can match
MonthMatches(s, p) ==
    (IF Len(s) >= p + 1 /\ s[p] = "1" /\ s[p + 1] \in {"0", "1", "2"}
        THEN {<<2, 10 + DigitVal(s[p + 1])>>} ELSE {})
    \cup
    (IF Len(s) >= p + 1 /\ s[p] = "0" /\ IsDigit(s[p + 1]) /\ s[p + 1] # "0"
        THEN {<<2, DigitVal(s[p + 1])>>} ELSE {})
    \cup
    (IF Len(s) >= p /\ IsDigit(s[p]) /\ s[p] # "0"
        THEN {<<1, DigitVal(s[p])>>} ELSE {})

\* the %d directive at position p, the last of the format:
\* 3[01] | [12]\d | 0[1-9] | [1-9] | " "[1-9], the first alternative that matches
DayMatch(s, p) ==
    IF Len(s) >= p + 1 /\ s[p] = "3" /\ s[p + 1] \in {"0", "1"}
        THEN <<2, 30 + DigitVal(s[p + 1])>>
    ELSE IF Len(s) >= p + 1 /\ s[p] \in {"1", "2"} /\ IsDigit(s[p + 1])
        THEN <<2, 10 * DigitVal(s[p]) + DigitVal(s[p + 1])>>
    ELSE IF Len(s) >= p + 1 /\ s[p] = "0" /\ IsDigit(s[p + 1]) /\ s[p + 1] # "0"
        THEN <<2, DigitVal(s[p + 1])>>
    ELSE IF Len(s) >= p /\ IsDigit(s[p]) /\ s[p] # "0"
        THEN <<1, DigitVal(s[p])>>
    ELSE IF Len(s) >= p + 1 /\ s[p] = " " /\ IsDigit(s[p + 1]) /\ s[p + 1] # "0"
        THEN <<2, DigitVal(s[p + 1])>>
    ELSE <<0, 0>>

\* datetime.strptime(s, "%Y-%m-%d").date(): NoDate stands for the ValueError
strptime(s) ==
    IF ~(Len(s) >= 5 /\ (\A i \in 1..4 : IsDigit(s[i])) /\ s[5] = "-")
    THEN NoDate
    ELSE
        LET good == {mm \in MonthMatches(s, 6) :
                        /\ Len(s) >= 6 + mm[1]
                        /\ s[6 + mm[1]] = "-"
                        /\ DayMatch(s, 7 + mm[1])[1] > 0}
        IN  IF good = {} THEN NoDate
            ELSE
                LET mm == CHOOSE x \in good : \A z \in good : x[1] >= z[1]
                    dd == DayMatch(s, 7 + mm[1])
                    y  == YearOf(s)
                IN  IF 6 + mm[1] + dd[1] # Len(s) THEN NoDate      \* unconverted data remains
                    ELSE IF y < 1 THEN NoDate                       \* year 0 is out of range
                    ELSE IF dd[2] > DaysInMonth(y, mm[2]) THEN NoDate \* day is out of range
                    ELSE MkDate(y, mm[2], dd[2])

(***************************************************************************)
(* The row parser                                                          *)
(***************************************************************************)
sName == <<"n","a","m","e">>
sEmail == <<"e","m","a","i","l">>
sDepartment == <<"d","e","p","a","r","t","m","e","n","t">>
sStartdate == <<"s","t","a","r","t","d","a","t","e">>
sManager == <<"m","a","n","a","g","e","r">>

\* the number of cells a row must have to be read (line 118)
MinCells == 5

\* the header compared as written, without lowercasing it
HeaderOfNoLower(grid) == [i \in DOMAIN grid[1] |-> Strip(grid[1][i])]

\* header = [h.strip().lower() for h in values[0]]
HeaderOf(grid) == [i \in DOMAIN grid[1] |-> Lower(Strip(grid[1][i]))]

\* list.index from position i on: the 0-based index of the first equal cell,
\* -1 for the ValueError
RECURSIVE IndexFrom(_, _, _)
IndexFrom(header, name, i) ==
    IF i > Len(header) THEN -1
    ELSE IF header[i] = name THEN i - 1
    ELSE IndexFrom(header, name, i + 1)

\* the nested col(name, default)
col(header, name, default) ==
    LET i == IndexFrom(header, name, 1)
    IN  IF i = -1 THEN default ELSE i

\* i_name, i_email, i_dept, i_start, i_mgr
Columns(grid) ==
    LET header == HeaderOf(grid)
    IN  [i_name  |-> col(header, sName, 0),
         i_email |-> col(header, sEmail, 1),
         i_dept  |-> col(header, sDepartment, 2),
         i_start |-> col(header, sStartdate, 3),
         i_mgr   |-> col(header, sManager, 4)]

\* the window with its last day left out
InWindowOpen(d, tod, w) ==
    ToOrdinal(tod) <= ToOrdinal(d) /\ ToOrdinal(d) < ToOrdinal(tod) + w

\* today <= d <= within, with within = today + timedelta(days=window_days)
InWindow(d, tod, w) ==
    LET within == ToOrdinal(tod) + w
    IN  ToOrdinal(tod) <= ToOrdinal(d) /\ ToOrdinal(d) <= within

\* the try block of the loop body: the date of the row, NoDate when row[i_start]
\* raises IndexError or strptime raises ValueError (both caught by except Exception)
RowDate(row, c) ==
    IF c.i_start + 1 > Len(row) THEN NoDate ELSE strptime(Strip(row[c.i_start + 1]))

\* the Employee(...) constructed from a row
Employee(row, c) ==
    [name       |-> Strip(row[c.i_name + 1]),
     email      |-> Strip(row[c.i_email + 1]),
     department |-> Strip(row[c.i_dept + 1]),
     start_date |-> Strip(row[c.i_start + 1]),
     manager    |-> Strip(row[c.i_mgr + 1])]

\* the indexes read outside the try block are all inside the row
FieldsReadable(row, c) ==
    \A i \in {c.i_name, c.i_email, c.i_dept, c.i_start, c.i_mgr} : i + 1 <= Len(row)

\* the for loop over values[1:], from row r on, hires being the list so far;
\* an IndexError outside the try block leaves the function
RECURSIVE ParseRows(_, _, _, _, _, _)
ParseRows(grid, r, c, tod, w, hires) ==
    IF r > Len(grid) THEN [raised |-> FALSE, hires |-> hires, cols |-> c]
    ELSE
        LET row == grid[r]
        IN  IF Len(row) < MinCells THEN ParseRows(grid, r + 1, c, tod, w, hires)
            ELSE
                LET d == RowDate(row, c)
                IN  IF ~d.ok THEN ParseRows(grid, r + 1, c, tod, w, hires)
                    ELSE IF ~InWindow(d, tod, w) THEN ParseRows(grid, r + 1, c, tod, w, hires)
                    ELSE IF ~FieldsReadable(row, c) THEN [raised |-> TRUE, hires |-> <<>>, cols |-> c]
                    ELSE ParseRows(grid, r + 1, c, tod, w, Append(hires, Employee(row, c)))

\* no column is resolved when the grid is empty (lines 96-97)
NoCols == [i_name |-> -1, i_email |-> -1, i_dept |-> -1, i_start |-> -1, i_mgr |-> -1]

parse_upcoming_employees(grid, w, tod) ==
    IF grid = <<>> THEN [raised |-> FALSE, hires |-> <<>>, cols |-> NoCols]
    ELSE ParseRows(grid, 2, Columns(grid), tod, w, <<>>)

(***************************************************************************)
(* The credential cache                                                    *)
(***************************************************************************)
\* what the loaded credentials are at the time of the call: creds.valid;
\* creds.expired with a refresh token; neither
CredStatus == {"valid", "expired", "invalid"}

\* an external effect in the log: whether it succeeded, whether it used the network
Ev(op, r, net) == [op |-> op, ret |-> r, net |-> net]

\* get_credentials(SCOPES) followed by build(...): tok is token.json, status what
\* the cached credentials are now, grant whether the refresh or the consent flow
\* succeeds, built whether build(...) succeeds, svc the name of the service
AcquireService(tok, status, grant, built, svc) ==
    LET loaded  == tok.exists /\ tok.scopes_ok        \* creds is not None at line 55
        evLoad  == IF tok.exists THEN <<Ev("cred_load", TRUE, FALSE)>> ELSE <<>>
        fresh   == [exists |-> TRUE, scopes_ok |-> TRUE]
        build   == IF built THEN <<Ev(svc, TRUE, TRUE)>> ELSE <<>>
    IN  IF loaded /\ status = "valid"
        THEN [raised |-> ~built, token |-> tok, events |-> evLoad \o build]
        ELSE
            LET how == IF loaded /\ status = "expired" THEN "cred_refresh" ELSE "cred_consent"
            IN  IF ~grant
                THEN [raised |-> TRUE, token |-> tok,
                      events |-> evLoad \o <<Ev(how, FALSE, TRUE)>>]
                ELSE [raised |-> ~built, token |-> fresh,
                      events |-> evLoad \o <<Ev(how, TRUE, TRUE),
                                             Ev("token_write", TRUE, FALSE)>> \o build]

(***************************************************************************)
(* The notifiers                                                           *)
(***************************************************************************)
\* a notifier invocation in the log: the hire it was given, what it returned
\* (for the calendar notifier, whether it returned at all), whether it made a
\* network call and whether that call succeeded
Call(op, emp, r, net, netok) ==
    [op |-> op, emp |-> emp, ret |-> r, net |-> net, netok |-> netok]

\* the mail is skipped only when both the sender and the credential are unset
send_email_if_either(e, sent) ==
    IF ~e.GMAIL_USER /\ ~e.GMAIL_APP_PASSWORD
    THEN [ret |-> TRUE, net |-> FALSE, netok |-> FALSE]
    ELSE [ret |-> sent, net |-> TRUE, netok |-> sent]

\* send_email_if_configured: sent is whether the SMTP session succeeds
send_email_if_configured(e, sent) ==
    IF ~e.GMAIL_USER \/ ~e.GMAIL_APP_PASSWORD
    THEN [ret |-> TRUE, net |-> FALSE, netok |-> FALSE]
    ELSE [ret |-> sent, net |-> TRUE, netok |-> sent]

\* post_slack_if_configured: posted is whether the POST succeeds with a 2xx status
post_slack_if_configured(e, posted) ==
    IF ~e.SLACK_WEBHOOK
    THEN [ret |-> TRUE, net |-> FALSE, netok |-> FALSE]
    ELSE [ret |-> posted, net |-> TRUE, netok |-> posted]

(***************************************************************************)
(* Inputs                                                                  *)
(***************************************************************************)
\* the fetched range is A:E (line 228): a row of the grid has at most 5 cells
MaxCols == 5
\* the longest grid given to the parser, in data rows
MaxRows == 2
\* the longest grid main fetches, in data rows
MaxFetchRows == 2
\* the largest WINDOW_DAYS
MaxWindow == 2

Str2(n) == <<Digits[(n \div 10) + 1], Digits[(n % 10) + 1]>>
Str4(n) == Str2(n \div 100) \o Str2(n % 100)
Iso(y, m, d) == Str4(y) \o <<"-">> \o Str2(m) \o <<"-">> \o Str2(d)
Pad(s) == <<" ">> \o s \o <<" ", "\t">>

SeqsUpTo(S, n) == UNION {[1..m -> S] : m \in 0..n}

Today1 == MkDate(2024, 2, 28)
Today2 == MkDate(2024, 2, 29)

\* header cells: the five labels in several spellings, and a foreign label
HeaderCells ==
    { sName,
      <<" ", "N", "a", "m", "e">>,
      <<"E", "m", "a", "i", "l">>,
      sDepartment,
      <<"S", "t", "a", "r", "t", "D", "a", "t", "e", " ">>,
      sStartdate,
      sManager,
      <<"i", "d">> }

CanonicalHeader ==
    << <<"N", "a", "m", "e">>, <<"E", "m", "a", "i", "l">>,
       <<"D", "e", "p", "a", "r", "t", "m", "e", "n", "t">>,
       <<"S", "t", "a", "r", "t", "D", "a", "t", "e">>,
       <<"M", "a", "n", "a", "g", "e", "r">> >>

\* start-date cells: before, on and after the window's ends, padded, unpadded
\* digits, a day that does not exist, another year, and text
DateCells ==
    { Iso(2024, 2, 27), Iso(2024, 2, 28), Pad(Iso(2024, 2, 29)),
      <<"2", "0", "2", "4", "-", "3", "-", "1">>,
      Iso(2024, 3, 2), Iso(2024, 2, 30), Iso(2025, 2, 28),
      <<"n", "/", "a">> }

cellA == <<" ", "A", "s", "h", "a">>
cellMail == <<"a", "@", "x", " ">>
cellDept == <<"E", "n", "g">>
cellMgr == <<"R", ".", " ", "S">>

\* a full row with the given start-date cell in column D
RowWith(dc) == <<cellA, cellMail, cellDept, dc, cellMgr>>

\* data rows: full rows, a row that lacks its last cell, and an empty row
DataRows ==
    {RowWith(dc) : dc \in DateCells}
    \cup {<<cellA, cellMail, cellDept, Iso(2024, 2, 28)>>, <<>>}

\* a row whose every cell is a date, so that whichever column is resolved as the
\* start date the row has one, inside or outside the window
DatesRow ==
    <<Iso(2024, 2, 28), Pad(Iso(2024, 2, 29)), <<"2", "0", "2", "4", "-", "3", "-", "1">>,
      Iso(2024, 3, 3), Iso(2024, 2, 27)>>

\* the arguments of the parser: every header of at most MaxCols cells over one row
\* of dates, and the positional and the canonical header over every grid of at
\* most MaxRows data rows, every window and two days
ParserInputs ==
    {[values |-> <<h, DatesRow>>, window_days |-> MaxWindow, today |-> Today1] :
        h \in SeqsUpTo(HeaderCells, MaxCols)}
    \cup
    {[values |-> <<h>> \o rows, window_days |-> w, today |-> t] :
        h \in {<<>>, CanonicalHeader}, rows \in SeqsUpTo(DataRows, MaxRows),
        w \in 0..MaxWindow, t \in {Today1, Today2}}
    \cup
    {[values |-> <<>>, window_days |-> w, today |-> Today1] : w \in 0..MaxWindow}

\* the rows of the sheets main fetches: two hires, the second one a day after the
\* first, and a row main has nothing to do for
FetchRows ==
    { RowWith(Iso(2024, 2, 28)),
      <<<<"B">>, <<"b", "@", "x">>, <<"O", "p", "s">>, Iso(2024, 2, 29), <<"S">>>>,
      RowWith(<<"n", "/", "a">>) }

FetchGrids ==
    {<<>>} \cup {<<CanonicalHeader>> \o rows : rows \in SeqsUpTo(FetchRows, MaxFetchRows)}

NotParsed == [done |-> FALSE, raised |-> FALSE, hires |-> <<>>, cols |-> NoCols]

(***************************************************************************)
(* The parser on its own                                                   *)
(***************************************************************************)
ParserInit ==
    /\ \E inp \in ParserInputs :
        /\ values = inp.values
        /\ window_days = inp.window_days
        /\ today = inp.today
    /\ pc = "idle"
    /\ env = [SHEET_ID |-> TRUE, GMAIL_USER |-> FALSE, GMAIL_APP_PASSWORD |-> FALSE,
              SLACK_WEBHOOK |-> FALSE, WINDOW_DAYS |-> window_days]
    /\ token = [exists |-> FALSE, scopes_ok |-> FALSE]
    /\ parsed = NotParsed
    /\ k = 0
    /\ ok_email = FALSE
    /\ ok_slack = FALSE
    /\ log = <<>>

\* one call of parse_upcoming_employees(values, window_days)
ParserCall ==
    /\ pc = "idle"
    /\ ~parsed.done
    /\ LET r == parse_upcoming_employees(values, window_days, today)
       IN  parsed' = [done |-> TRUE, raised |-> r.raised, hires |-> r.hires, cols |-> r.cols]
    /\ UNCHANGED <<pc, env, token, values, window_days, today, k, ok_email, ok_slack, log>>

ParserNext == ParserCall

SpecParser == ParserInit /\ [][ParserNext]_vars

(***************************************************************************)
(* main                                                                    *)
(***************************************************************************)
Init ==
    /\ env \in [SHEET_ID : BOOLEAN, GMAIL_USER : BOOLEAN, GMAIL_APP_PASSWORD : BOOLEAN,
                SLACK_WEBHOOK : BOOLEAN, WINDOW_DAYS : 0..MaxWindow]
    /\ token \in {[exists |-> FALSE, scopes_ok |-> FALSE],
                  [exists |-> TRUE, scopes_ok |-> FALSE],
                  [exists |-> TRUE, scopes_ok |-> TRUE]}
    /\ pc = "start"
    /\ values = <<>>
    /\ window_days = env.WINDOW_DAYS
    /\ today = NoDate
    /\ parsed = NotParsed
    /\ k = 0
    /\ ok_email = FALSE
    /\ ok_slack = FALSE
    /\ log = <<>>

\* main goes on without SHEET_ID
CheckSheetIdIgnored ==
    /\ pc = "start"
    /\ pc' = "sheets"
    /\ UNCHANGED <<env, token, values, window_days, today, parsed, k, ok_email, ok_slack, log>>

\* lines 220-222: without SHEET_ID main prints and returns
CheckSheetId ==
    /\ pc = "start"
    /\ pc' = IF env.SHEET_ID THEN "sheets" ELSE "done"
    /\ UNCHANGED <<env, token, values, window_days, today, parsed, k, ok_email, ok_slack, log>>

\* line 225: sheets = get_sheets_service()
GetSheetsService ==
    /\ pc = "sheets"
    /\ \E status \in CredStatus, grant \in BOOLEAN, built \in BOOLEAN :
        LET a == AcquireService(token, status, grant, built, "sheets_service")
        IN  /\ token' = a.token
            /\ log' = log \o a.events
            /\ pc' = IF a.raised THEN "raised" ELSE "fetch"
    /\ UNCHANGED <<env, values, window_days, today, parsed, k, ok_email, ok_slack>>

\* lines 226-231: the A:E range is fetched; the request may raise
FetchValues ==
    /\ pc = "fetch"
    /\ \/ /\ \E g \in FetchGrids : values' = g
          /\ log' = Append(log, Ev("fetch", TRUE, TRUE))
          /\ pc' = "parse"
       \/ /\ values' = values
          /\ log' = Append(log, Ev("fetch", FALSE, TRUE))
          /\ pc' = "raised"
    /\ UNCHANGED <<env, token, window_days, today, parsed, k, ok_email, ok_slack>>

\* lines 234-238: the parser is called; no hires, nothing to process
ParseHires ==
    /\ pc = "parse"
    /\ today' = Today1
    /\ LET r == parse_upcoming_employees(values, env.WINDOW_DAYS, today')
       IN  /\ parsed' = [done |-> TRUE, raised |-> r.raised, hires |-> r.hires, cols |-> r.cols]
           /\ pc' = IF r.raised THEN "raised"
                    ELSE IF r.hires = <<>> THEN "done" ELSE "calendar"
    /\ log' = Append(log, Ev("parse", TRUE, FALSE))
    /\ UNCHANGED <<env, token, values, window_days, k, ok_email, ok_slack>>

\* line 241: cal = get_calendar_service(), then the loop starts at the first hire
GetCalendarService ==
    /\ pc = "calendar"
    /\ \E status \in CredStatus, grant \in BOOLEAN, built \in BOOLEAN :
        LET a == AcquireService(token, status, grant, built, "calendar_service")
        IN  /\ token' = a.token
            /\ log' = log \o a.events
            /\ pc' = IF a.raised THEN "raised" ELSE "email"
            /\ k' = IF a.raised THEN k ELSE 1
    /\ UNCHANGED <<env, values, window_days, today, parsed, ok_email, ok_slack>>

\* the calendar notifier is called right after the email notifier
SendEmailThenEvent ==
    /\ pc = "email"
    /\ \E sent \in BOOLEAN :
        LET r == send_email_if_configured(env, sent)
        IN  /\ ok_email' = r.ret
            /\ log' = Append(log, Call("email", parsed.hires[k], r.ret, r.net, r.netok))
    /\ pc' = "event"
    /\ UNCHANGED <<env, token, values, window_days, today, parsed, k, ok_slack>>

\* line 245: ok_email = send_email_if_configured(emp)
SendEmail ==
    /\ pc = "email"
    /\ \E sent \in BOOLEAN :
        LET r == send_email_if_configured(env, sent)
        IN  /\ ok_email' = r.ret
            /\ log' = Append(log, Call("email", parsed.hires[k], r.ret, r.net, r.netok))
    /\ pc' = "slack"
    /\ UNCHANGED <<env, token, values, window_days, today, parsed, k, ok_slack>>

\* a chat notifier that reports false ends the run
PostSlackAborting ==
    /\ pc = "slack"
    /\ \E posted \in BOOLEAN :
        LET r == post_slack_if_configured(env, posted)
        IN  /\ ok_slack' = r.ret
            /\ log' = Append(log, Call("slack", parsed.hires[k], r.ret, r.net, r.netok))
            /\ pc' = IF r.ret THEN "event" ELSE "raised"
    /\ UNCHANGED <<env, token, values, window_days, today, parsed, k, ok_email>>

\* line 246: ok_slack = post_slack_if_configured(emp)
PostSlack ==
    /\ pc = "slack"
    /\ \E posted \in BOOLEAN :
        LET r == post_slack_if_configured(env, posted)
        IN  /\ ok_slack' = r.ret
            /\ log' = Append(log, Call("slack", parsed.hires[k], r.ret, r.net, r.netok))
    /\ pc' = "event"
    /\ UNCHANGED <<env, token, values, window_days, today, parsed, k, ok_email>>

\* the loop ends after its first hire
AfterHireStops(i) == "done"

\* the position of main after the body of the loop for hire i
AfterHire(i) == IF i = Len(parsed.hires) THEN "done" ELSE "email"

\* a calendar error is caught and the loop goes on, as for the other two notifiers
CreateEventCaught ==
    /\ pc = "event"
    /\ \E created \in BOOLEAN :
        log' = log \o <<Call("event", parsed.hires[k], created, TRUE, created),
                        [op |-> "outcome", emp |-> parsed.hires[k],
                         email |-> ok_email, slack |-> ok_slack]>>
    /\ pc' = AfterHire(k)
    /\ k' = IF k = Len(parsed.hires) THEN k ELSE k + 1
    /\ UNCHANGED <<env, token, values, window_days, today, parsed, ok_email, ok_slack>>

\* lines 247-248: link = create_day1_event(...) and the outcome line; an error of
\* events().insert(...).execute() is caught nowhere and leaves main
CreateEvent ==
    /\ pc = "event"
    /\ \/ /\ log' = log \o <<Call("event", parsed.hires[k], TRUE, TRUE, TRUE),
                             [op |-> "outcome", emp |-> parsed.hires[k],
                              email |-> ok_email, slack |-> ok_slack]>>
          /\ pc' = AfterHire(k)
          /\ k' = IF k = Len(parsed.hires) THEN k ELSE k + 1
       \/ /\ log' = Append(log, Call("event", parsed.hires[k], FALSE, TRUE, FALSE))
          /\ pc' = "raised"
          /\ k' = k
    /\ UNCHANGED <<env, token, values, window_days, today, parsed, ok_email, ok_slack>>

Next ==
    \/ CheckSheetId
    \/ GetSheetsService
    \/ FetchValues
    \/ ParseHires
    \/ GetCalendarService
    \/ SendEmail
    \/ PostSlack
    \/ CreateEvent

Spec == Init /\ [][Next]_vars

(***************************************************************************)
(* Properties of the parser, checked under SpecParser                      *)
(***************************************************************************)
\* the day after a calendar date
NextDay(dt) ==
    IF dt.d < DaysInMonth(dt.y, dt.m) THEN MkDate(dt.y, dt.m, dt.d + 1)
    ELSE IF dt.m < 12 THEN MkDate(dt.y, dt.m + 1, 1)
    ELSE MkDate(dt.y + 1, 1, 1)

RECURSIVE PlusDays(_, _)
PlusDays(dt, n) == IF n = 0 THEN dt ELSE PlusDays(NextDay(dt), n - 1)

\* the start-date cell of a row, trimmed; empty text when the row has no such cell
StartCell(row) ==
    IF parsed.cols.i_start + 1 \in DOMAIN row THEN Strip(row[parsed.cols.i_start + 1]) ELSE <<>>

\* the date is one of today, today + 1, ..., today + window_days
OnWindowDay(d) == \E n \in 0..window_days : PlusDays(today, n) = d

\* a data row the parser is to return
Qualifies(row) ==
    /\ Len(row) >= 5
    /\ strptime(StartCell(row)).ok
    /\ OnWindowDay(strptime(StartCell(row)))

RecordsOf(rows) == [i \in 1..Len(rows) |-> Employee(rows[i], parsed.cols)]

\* C1: the parser returns exactly the data rows that have at least 5 cells and a
\* start-date cell that parses as a date of [today, today + window_days], both
\* ends included, one record per row, in the order of the rows, and does not raise
C1_ExactlyTheRowsInWindow ==
    parsed.done =>
        /\ ~parsed.raised
        /\ parsed.hires =
            (IF values = <<>> THEN <<>> ELSE RecordsOf(SelectSeq(Tail(values), Qualifies)))

\* two full rows with a date, the first a day before today and dropped, the second
\* on the last day of a window of more than no days and returned
C1_Witness ==
    /\ parsed.done
    /\ window_days > 0
    /\ Len(values) = 3
    /\ Len(values[2]) = 5
    /\ Len(values[3]) = 5
    /\ strptime(StartCell(values[2])).ok
    /\ NextDay(strptime(StartCell(values[2]))) = today
    /\ strptime(StartCell(values[3])) = PlusDays(today, window_days)
    /\ parsed.hires = <<Employee(values[3], parsed.cols)>>

\* text of the form YYYY-MM-DD that names a day of the calendar
IsYMD(s) ==
    /\ Len(s) = 10
    /\ \A i \in {1, 2, 3, 4, 6, 7, 9, 10} : IsDigit(s[i])
    /\ s[5] = "-"
    /\ s[8] = "-"
    /\ YearOf(s) >= 1
    /\ LET m == 10 * DigitVal(s[6]) + DigitVal(s[7])
           d == 10 * DigitVal(s[9]) + DigitVal(s[10])
       IN  m \in 1..12 /\ d \in 1..DaysInMonth(YearOf(s), m)

\* a data row with 5 cells and a valid YYYY-MM-DD start date in the window; the
\* cell is taken trimmed, as line 121 trims it on purpose
QualifiesYMD(row) == Qualifies(row) /\ IsYMD(StartCell(row))

\* C2: a row with fewer than 5 cells and a row whose start-date cell is not a valid
\* YYYY-MM-DD date are left out, the parser does not raise, and every other
\* in-window row of the grid is returned
C2_BadRowsSkipped ==
    parsed.done =>
        /\ ~parsed.raised
        /\ parsed.hires =
            (IF values = <<>> THEN <<>> ELSE RecordsOf(SelectSeq(Tail(values), QualifiesYMD)))

\* the 0-based index of the first header cell that is the label once trimmed and
\* lowercased, the default when there is none
FirstMatch(label, default) ==
    LET hits == {j \in DOMAIN values[1] : Lower(Strip(values[1][j])) = label}
    IN  IF hits = {} THEN default
        ELSE (CHOOSE j \in hits : \A q \in hits : j <= q) - 1

\* C3, amended: each label resolves to the first header cell equal to it once the
\* cell is trimmed of surrounding whitespace and lowercased, and to the positional
\* column 0, 1, 2, 3, 4 when there is no such cell
C3_ColumnsTrimmedCaseInsensitive ==
    (parsed.done /\ values # <<>>) =>
        parsed.cols = [i_name  |-> FirstMatch(sName, 0),
                       i_email |-> FirstMatch(sEmail, 1),
                       i_dept  |-> FirstMatch(sDepartment, 2),
                       i_start |-> FirstMatch(sStartdate, 3),
                       i_mgr   |-> FirstMatch(sManager, 4)]

\* a padded mixed-case Name in the second column is the name column, and with no
\* start-date label in the header the start date is column 3
C3_Witness ==
    /\ parsed.done
    /\ Len(values) >= 1
    /\ Len(values[1]) >= 2
    /\ values[1][1] = <<"i", "d">>
    /\ values[1][2] = <<" ", "N", "a", "m", "e">>
    /\ parsed.cols.i_name = 1
    /\ \A j \in DOMAIN values[1] : Lower(Strip(values[1][j])) # sStartdate
    /\ parsed.cols.i_start = 3

\* the 0-based index of the first header cell equal to the label when case is
\* ignored, the default when there is none
FirstMatchAnyCase(label, default) ==
    LET hits == {j \in DOMAIN values[1] : Lower(values[1][j]) = label}
    IN  IF hits = {} THEN default
        ELSE (CHOOSE j \in hits : \A q \in hits : j <= q) - 1

\* C3 as stated: each label resolves to the header cell equal to it compared
\* case-insensitively, and to the positional column when no header cell is
C3_ColumnsCaseInsensitive ==
    (parsed.done /\ values # <<>>) =>
        parsed.cols = [i_name  |-> FirstMatchAnyCase(sName, 0),
                       i_email |-> FirstMatchAnyCase(sEmail, 1),
                       i_dept  |-> FirstMatchAnyCase(sDepartment, 2),
                       i_start |-> FirstMatchAnyCase(sStartdate, 3),
                       i_mgr   |-> FirstMatchAnyCase(sManager, 4)]

ColumnSet == {parsed.cols.i_name, parsed.cols.i_email, parsed.cols.i_dept,
              parsed.cols.i_start, parsed.cols.i_mgr}

\* C10: the five resolved columns are pairwise distinct and each is an index into
\* every data row of at least 5 cells, and reading the fields does not raise
C10_ColumnsDistinctAndInRange ==
    (parsed.done /\ values # <<>>) =>
        /\ Cardinality(ColumnSet) = 5
        /\ ~parsed.raised
        /\ \A r \in 2..Len(values) :
            Len(values[r]) >= 5 => \A i \in ColumnSet : i + 1 \in DOMAIN values[r]

(***************************************************************************)
(* Properties of main, checked under Spec                                  *)
(***************************************************************************)
NotifierOrder == <<"email", "slack", "event">>

IsCall(e) == e.op \in {"email", "slack", "event"}

\* the notifier invocations of the run, in order
Calls == SelectSeq(log, IsCall)

CallsOf(op) == SelectSeq(log, LAMBDA e : e.op = op)

\* C4: the notifier invocations are email, chat, calendar for the first hire of the
\* parser's output, then for the second, and so on, and a notifier is invoked after
\* a calendar notifier only if that one returned
C4_NotifiersInOrder ==
    \A i \in DOMAIN Calls :
        /\ Calls[i].op = NotifierOrder[((i - 1) % 3) + 1]
        /\ ((i - 1) \div 3) + 1 \in DOMAIN parsed.hires
        /\ Calls[i].emp = parsed.hires[((i - 1) \div 3) + 1]
        /\ (Calls[i].op = "event" /\ i < Len(Calls)) => Calls[i].ret

\* a finished run over two different hires: six invocations
C4_Witness ==
    /\ pc = "done"
    /\ Len(parsed.hires) = 2
    /\ parsed.hires[1] # parsed.hires[2]
    /\ Len(Calls) = 6

EmailConfigured == env.GMAIL_USER /\ env.GMAIL_APP_PASSWORD

\* C5: an optional notifier without its configuration returns true and makes no
\* network call; with it the notifier makes the call and returns whether the call
\* succeeded, false on a failure, and no run is left raised by either of the two
C5_OptionalNotifiers ==
    /\ \A i \in DOMAIN log :
        /\ log[i].op = "email" =>
            IF EmailConfigured
            THEN log[i].net /\ (log[i].ret <=> log[i].netok)
            ELSE log[i].ret /\ ~log[i].net
        /\ log[i].op = "slack" =>
            IF env.SLACK_WEBHOOK
            THEN log[i].net /\ (log[i].ret <=> log[i].netok)
            ELSE log[i].ret /\ ~log[i].net
    /\ (pc = "raised" /\ log # <<>>) => log[Len(log)].op \notin {"email", "slack"}

\* only the mail sender is set and the webhook is: the mail is skipped with true,
\* the POST fails and the chat notifier returns false
C5_Witness ==
    /\ env.GMAIL_USER
    /\ ~env.GMAIL_APP_PASSWORD
    /\ env.SLACK_WEBHOOK
    /\ Len(Calls) >= 2
    /\ Calls[1].ret /\ ~Calls[1].net
    /\ Calls[2].net /\ ~Calls[2].netok /\ ~Calls[2].ret
    /\ pc = "event"

\* C6: once the email or the chat notifier has reported false, the run is either
\* still running the loop, or it ended on a calendar error, or it finished with
\* the three notifiers invoked for every hire
C6_OptionalFailureDoesNotAbort ==
    (\E i \in DOMAIN log : log[i].op \in {"email", "slack"} /\ ~log[i].ret) =>
        /\ pc \in {"email", "slack", "event", "done", "raised"}
        /\ pc = "raised" => (log[Len(log)].op = "event" /\ ~log[Len(log)].ret)
        /\ pc = "done" => Len(Calls) = 3 * Len(parsed.hires)
        /\ pc = "event" => (Calls[Len(Calls)].op = "slack" /\ Len(Calls) = 3 * k - 1)
        /\ pc = "slack" => (Calls[Len(Calls)].op = "email" /\ Len(Calls) = 3 * k - 2)

\* the mail and the POST of the first of two hires fail and the run finishes with
\* all six invocations
C6_Witness ==
    /\ pc = "done"
    /\ Len(parsed.hires) = 2
    /\ Len(Calls) = 6
    /\ ~Calls[1].ret
    /\ ~Calls[2].ret

\* C7: without SHEET_ID nothing happens: no credential load, refresh, consent or
\* token write, no service, no fetch, no parser call and no notifier invocation
C7_NoSheetIdNothingDone ==
    ~env.SHEET_ID =>
        /\ log = <<>>
        /\ pc \in {"start", "done"}
        /\ ~parsed.done
        /\ values = <<>>
        /\ k = 0

C7_Witness == ~env.SHEET_ID /\ pc = "done" /\ token.exists /\ ~token.scopes_ok

C9_CalendarErrorHalts ==
    \A i \in DOMAIN log :
        (log[i].op = "event" /\ ~log[i].ret) =>
            /\ i = Len(log)
            /\ pc = "raised"
            /\ log[i].emp = parsed.hires[k]
            /\ i >= 3
            /\ log[i - 2].op = "email" /\ log[i - 2].emp = log[i].emp
            /\ log[i - 1].op = "slack" /\ log[i - 1].emp = log[i].emp
            /\ Len(Calls) = 3 * k
            /\ Len(CallsOf("outcome")) = k - 1

\* the event of the first of two hires fails: the second hire is never reached
C9_Witness ==
    /\ pc = "raised"
    /\ Len(parsed.hires) = 2
    /\ k = 1
    /\ Len(Calls) = 3
    /\ ~Calls[3].ret

====
